---- MODULE Spec2Model ----
(***************************************************************************)
(* Model of frontend/src/components/shared/git-provider-icon.tsx.          *)
(*                                                                         *)
(* GitProviderIcon is a React function component: it receives the props    *)
(* { gitProvider, className } and returns a fragment whose four children   *)
(* are the values of four `cond && <Glyph .../>` expressions.  A child     *)
(* whose condition is false has the JavaScript value `false`, which React  *)
(* does not render.                                                        *)
(*                                                                         *)
(* The component is modelled as the operator GitProviderIcon, computed     *)
(* child by child as the JSX is, and a renderer that holds several         *)
(* component instances: an instance is called with its props, returns its  *)
(* fragment, and is unmounted.                                             *)
(***************************************************************************)
EXTENDS Integers, Sequences, FiniteSets, TLC

(* ----------------------------- bounds --------------------------------- *)

\* number of component instances the renderer holds at once
NumSlots == 2

\* cap of the count of calls that returned since the remembered one
MaxReturns == 3

Slots == 1..NumSlots

(* ------------------------- JavaScript values -------------------------- *)

\* the JavaScript value `undefined` (an omitted optional prop)
Undefined == "<undefined>"

\* the JavaScript value `false`, as a member of the children list
JsFalse == [kind |-> "false"]

\* values of the Provider union the component tests for
KnownProviders == {"github", "gitlab", "bitbucket", "codecommit"}

\* values that differ from a known tag by case, whitespace or emptiness
NearMissProviders == {"GitHub", " github", "", Undefined}

\* gitProvider values passed by callers (typed and untyped)
ProviderInputs == KnownProviders \cup NearMissProviders \cup {"unknown-provider"}

\* className values passed by callers; Undefined is the omitted prop
ClassNameInputs == {Undefined, "icon-lg", "icon-sm"}

\* the size={14} literal of the FaGithub element
GithubSize == 14

(* --------------------------- the component ---------------------------- *)

\* a comparison that trims and lower-cases its left operand first
Normalise(a) ==
  CASE a = "GitHub" -> "github"
    [] a = " github" -> "github"
    [] OTHER -> a

StrictEqNormalising(a, b) == Normalise(a) = b

\* a === b on strings: no conversion, no normalisation
StrictEq(a, b) == a = b

\* cond && elem : the element when cond is true, otherwise the value false
JsAnd(cond, elem) == IF cond THEN elem ELSE JsFalse

\* <Type size={14} className={className} />
ElementWithSize(type, size, className) ==
  [kind |-> "element", type |-> type,
   props |-> [size |-> size, className |-> className]]

\* <Type className={className} />
Element(type, className) ==
  [kind |-> "element", type |-> type, props |-> [className |-> className]]

\* <> ... </> : a fragment holding the children in source order
Fragment(children) ==
  [kind |-> "element", type |-> "Fragment", children |-> children]

(* ------------------------- renderer state ----------------------------- *)

VARIABLES
  pc,       \* pc[s]: "idle", "called" (props bound, body not yet evaluated)
            \*        or "returned" (the fragment has been returned)
  props,    \* props[s]: the props object instance s was called with
  out,      \* out[s]: the value instance s returned
  alone,    \* alone[s]: no other instance was in progress during s's call
  tracked,  \* the props object whose first result is remembered
  first,    \* the value returned by the first call with the tracked props
  returns   \* calls that returned since that one, itself included (capped)

vars == <<pc, props, out, alone, tracked, first, returns>>

NoProps == [gitProvider |-> Undefined, className |-> Undefined, bound |-> FALSE]
NoOutput == [kind |-> "none"]

Props(gitProvider, className) ==
  [gitProvider |-> gitProvider, className |-> className, bound |-> TRUE]

AllProps == {Props(p, c) : p \in ProviderInputs, c \in ClassNameInputs}

InProgress == {s \in Slots : pc[s] = "called"}

(* ---------------------- the four child expressions --------------------- *)

\* a size override that is applied only when no className is passed
GithubChildSizeByClass(gitProvider, className) ==
  JsAnd(StrictEq(gitProvider, "github"),
        IF className = Undefined
          THEN ElementWithSize("FaGithub", GithubSize, className)
          ELSE Element("FaGithub", className))

\* {gitProvider === "github" && <FaGithub size={14} className={className} />}
GithubChild(gitProvider, className) ==
  JsAnd(StrictEq(gitProvider, "github"),
        ElementWithSize("FaGithub", GithubSize, className))

\* the gitlab glyph without the className prop
GitlabChildNoClass(gitProvider, className) ==
  JsAnd(StrictEq(gitProvider, "gitlab"), Element("FaGitlab", Undefined))

\* the gitlab glyph with the github branch's size override copied over
GitlabChildSized(gitProvider, className) ==
  JsAnd(StrictEq(gitProvider, "gitlab"),
        ElementWithSize("FaGitlab", GithubSize, className))

\* {gitProvider === "gitlab" && <FaGitlab className={className} />}
GitlabChild(gitProvider, className) ==
  JsAnd(StrictEq(gitProvider, "gitlab"), Element("FaGitlab", className))

\* the bitbucket line with the gitlab line's condition left in place
BitbucketChildWrongTag(gitProvider, className) ==
  JsAnd(StrictEq(gitProvider, "gitlab"), Element("FaBitbucket", className))

\* {gitProvider === "bitbucket" && <FaBitbucket className={className} />}
BitbucketChild(gitProvider, className) ==
  JsAnd(StrictEq(gitProvider, "bitbucket"), Element("FaBitbucket", className))

\* the last line written as a default branch for everything else
CodecommitChildDefault(gitProvider, className) ==
  JsAnd(~ StrictEq(gitProvider, "github") /\ ~ StrictEq(gitProvider, "gitlab")
          /\ ~ StrictEq(gitProvider, "bitbucket"),
        Element("FaAws", className))

\* the codecommit line reusing the gitlab glyph
CodecommitChildGitlabGlyph(gitProvider, className) ==
  JsAnd(StrictEq(gitProvider, "codecommit"), Element("FaGitlab", className))

\* {gitProvider === "codecommit" && <FaAws className={className} />}
CodecommitChild(gitProvider, className) ==
  JsAnd(StrictEq(gitProvider, "codecommit"), Element("FaAws", className))

\* the fragment of the four children, in source order
Body(gitProvider, className) ==
  Fragment(<<GithubChild(gitProvider, className),
             GitlabChild(gitProvider, className),
             BitbucketChild(gitProvider, className),
             CodecommitChild(gitProvider, className)>>)

\* a component that reads className from a props object shared by all
\* instances: the one written by the latest call still in progress
SharedClassName(className) ==
  IF InProgress = {} THEN className
  ELSE props[CHOOSE s \in InProgress : \A t \in InProgress : t <= s].className

GitProviderIconShared(gitProvider, className) ==
  Body(gitProvider, SharedClassName(className))

\* a component that forwards className on its first render only
GitProviderIconFirstOnly(gitProvider, className) ==
  IF first = NoOutput THEN Body(gitProvider, className)
  ELSE Body(gitProvider, Undefined)

\* export function GitProviderIcon({ gitProvider, className }) { return (...) }
GitProviderIcon(gitProvider, className) == Body(gitProvider, className)

(* ------------------------ what React renders --------------------------- *)

\* the children of a fragment that React renders: booleans render nothing
Glyphs(node) == SelectSeq(node.children, LAMBDA ch : ch.kind = "element")

(* ----------------------------- actions -------------------------------- *)

\* React calls instance s with the props object { gitProvider, className }
Call(s, gitProvider, className) ==
  /\ pc[s] = "idle"
  /\ pc' = [pc EXCEPT ![s] = "called"]
  /\ props' = [props EXCEPT ![s] = Props(gitProvider, className)]
  /\ alone' = [t \in Slots |->
                 IF t = s THEN InProgress = {}
                 ELSE IF t \in InProgress THEN FALSE
                 ELSE alone[t]]
  /\ UNCHANGED <<out, tracked, first, returns>>

\* the function body of instance s runs to its return statement
Return(s) ==
  /\ pc[s] = "called"
  /\ pc' = [pc EXCEPT ![s] = "returned"]
  /\ out' = [out EXCEPT
               ![s] = GitProviderIcon(props[s].gitProvider, props[s].className)]
  /\ first' = IF first = NoOutput /\ props[s] = tracked THEN out'[s] ELSE first
  /\ returns' = IF first' # NoOutput /\ returns < MaxReturns
                  THEN returns + 1 ELSE returns
  /\ UNCHANGED <<props, alone, tracked>>

\* React drops instance s and the value it returned
Unmount(s) ==
  /\ pc[s] = "returned"
  /\ pc' = [pc EXCEPT ![s] = "idle"]
  /\ props' = [props EXCEPT ![s] = NoProps]
  /\ out' = [out EXCEPT ![s] = NoOutput]
  /\ alone' = [alone EXCEPT ![s] = FALSE]
  /\ UNCHANGED <<tracked, first, returns>>

\* a call made while no instance is mounted: renders one after another
CallNext(s, gitProvider, className) ==
  /\ \A t \in Slots : pc[t] = "idle"
  /\ Call(s, gitProvider, className)

(* -------------------------- specifications ---------------------------- *)

InitSlots ==
  /\ pc = [s \in Slots |-> "idle"]
  /\ props = [s \in Slots |-> NoProps]
  /\ out = [s \in Slots |-> NoOutput]
  /\ alone = [s \in Slots |-> FALSE]
  /\ first = NoOutput
  /\ returns = 0

\* instances are called and return in any interleaving
Init ==
  /\ InitSlots
  /\ tracked = NoProps

Next ==
  \/ \E s \in Slots, p \in ProviderInputs, c \in ClassNameInputs : Call(s, p, c)
  \/ \E s \in Slots : Return(s)
  \/ \E s \in Slots : Unmount(s)

Spec == Init /\ [][Next]_vars

\* renders happen one after another; the first result for one props object,
\* chosen arbitrarily, is remembered
InitSeq ==
  /\ InitSlots
  /\ tracked \in AllProps

NextSeq ==
  \/ \E s \in Slots, p \in ProviderInputs, c \in ClassNameInputs :
        CallNext(s, p, c)
  \/ \E s \in Slots : Return(s)
  \/ \E s \in Slots : Unmount(s)

SpecSeq == InitSeq /\ [][NextSeq]_vars

(* ------------------------- shared vocabulary -------------------------- *)

Returned == {s \in Slots : pc[s] = "returned"}

TypeOK ==
  /\ pc \in [Slots -> {"idle", "called", "returned"}]
  /\ props \in [Slots -> AllProps \cup {NoProps}]
  /\ alone \in [Slots -> BOOLEAN]
  /\ \A s \in Slots : pc[s] = "returned" <=> out[s] # NoOutput

\* the provider and className instance s was called with
ProviderOf(s) == props[s].gitProvider
ClassNameOf(s) == props[s].className

\* the glyph of the table in the component's documentation
TableGlyph(p) ==
  CASE p = "github" -> "FaGithub"
    [] p = "gitlab" -> "FaGitlab"
    [] p = "bitbucket" -> "FaBitbucket"
    [] p = "codecommit" -> "FaAws"

\* the glyph types rendered by a returned value, and their size attributes
GlyphTypes(node) == [i \in 1..Len(Glyphs(node)) |-> Glyphs(node)[i].type]
HasSize(glyph) == "size" \in DOMAIN glyph.props
SizeAttrs(node) ==
  [i \in 1..Len(Glyphs(node)) |->
     IF HasSize(Glyphs(node)[i]) THEN Glyphs(node)[i].props.size ELSE 0]

(* ------------------------------ claims -------------------------------- *)

\* C1: for each of the four known provider identifiers, whatever the
\* className (absent included), the returned fragment renders exactly one
\* glyph and it is the one of the table: github -> FaGithub,
\* gitlab -> FaGitlab, bitbucket -> FaBitbucket, codecommit -> FaAws.
C1_OneTableGlyph ==
  \A s \in Returned :
    ProviderOf(s) \in KnownProviders =>
      /\ Len(Glyphs(out[s])) = 1
      /\ Glyphs(out[s])[1].type = TableGlyph(ProviderOf(s))

C1_Witness ==
  \E s \in Returned :
    /\ ProviderOf(s) = "codecommit"
    /\ ClassNameOf(s) = Undefined
    /\ GlyphTypes(out[s]) = <<"FaAws">>

\* C2: for a gitProvider outside the four known identifiers, with any
\* className, the call returns normally (a fragment, never an error value)
\* and renders no glyph: no fallback glyph is substituted.
C2_UnknownRendersNothing ==
  /\ \A s \in Returned :
       /\ out[s].kind = "element"
       /\ out[s].type = "Fragment"
       /\ ProviderOf(s) \notin KnownProviders => Glyphs(out[s]) = <<>>
  /\ \A s \in InProgress : ENABLED Return(s)

C2_Witness ==
  \E s \in Returned :
    /\ ProviderOf(s) = "unknown-provider"
    /\ ClassNameOf(s) = "icon-sm"
    /\ Glyphs(out[s]) = <<>>

\* C3: for every known provider, the rendered glyph's className prop is the
\* className the component was called with, unchanged; when className was
\* omitted the glyph's className is undefined, in all four branches alike.
C3_ClassNameForwarded ==
  \A s \in Returned :
    ProviderOf(s) \in KnownProviders =>
      \A i \in 1..Len(Glyphs(out[s])) :
        Glyphs(out[s])[i].props.className = ClassNameOf(s)

C3_Witness ==
  \E s, t \in Returned :
    /\ ProviderOf(s) = "gitlab" /\ ClassNameOf(s) = "icon-sm"
    /\ Len(Glyphs(out[s])) = 1
    /\ Glyphs(out[s])[1].props.className = "icon-sm"
    /\ ProviderOf(t) = "bitbucket" /\ ClassNameOf(t) = Undefined
    /\ Len(Glyphs(out[t])) = 1
    /\ Glyphs(out[t])[1].props.className = Undefined

\* C4: the glyph chosen depends on gitProvider only: two calls with the same
\* gitProvider and any two className values render the same glyph kinds
\* (or both none) with the same size attribute.
C4_ClassNameDoesNotSelect ==
  \A s, t \in Returned :
    ProviderOf(s) = ProviderOf(t) =>
      /\ GlyphTypes(out[s]) = GlyphTypes(out[t])
      /\ SizeAttrs(out[s]) = SizeAttrs(out[t])

C4_Witness ==
  \E s, t \in Returned :
    /\ ProviderOf(s) = "github" /\ ProviderOf(t) = "github"
    /\ ClassNameOf(s) = Undefined /\ ClassNameOf(t) = "icon-lg"
    /\ GlyphTypes(out[s]) = <<"FaGithub">>
    /\ GlyphTypes(out[t]) = <<"FaGithub">>

\* C5: the github branch always renders its glyph with size = 14, with or
\* without className; the gitlab, bitbucket and codecommit branches never
\* set a size attribute, with or without className.
C5_SizeOnlyOnGithub ==
  \A s \in Returned :
    \A i \in 1..Len(Glyphs(out[s])) :
      /\ ProviderOf(s) = "github" =>
           HasSize(Glyphs(out[s])[i]) /\ Glyphs(out[s])[i].props.size = 14
      /\ ProviderOf(s) \in {"gitlab", "bitbucket", "codecommit"} =>
           ~ HasSize(Glyphs(out[s])[i])

C5_Witness ==
  \E s, t \in Returned :
    /\ ProviderOf(s) = "github" /\ ClassNameOf(s) = "icon-lg"
    /\ Len(Glyphs(out[s])) = 1 /\ HasSize(Glyphs(out[s])[1])
    /\ ProviderOf(t) = "gitlab" /\ ClassNameOf(t) = "icon-lg"
    /\ Len(Glyphs(out[t])) = 1 /\ ~ HasSize(Glyphs(out[t])[1])

C8_ExclusiveAndInjective ==
  /\ \A s \in Returned :
       Cardinality({i \in 1..Len(out[s].children) :
                      out[s].children[i].kind # "false"}) <= 1
  /\ \A s, t \in Returned :
       /\ ProviderOf(s) \in KnownProviders
       /\ ProviderOf(t) \in KnownProviders
       /\ ProviderOf(s) # ProviderOf(t)
       => \A i \in 1..Len(Glyphs(out[s])), j \in 1..Len(Glyphs(out[t])) :
            Glyphs(out[s])[i].type # Glyphs(out[t])[j].type

C8_Witness ==
  \E s, t \in Returned :
    /\ ProviderOf(s) = "gitlab"
    /\ ProviderOf(t) = "codecommit"
    /\ GlyphTypes(out[s]) = <<"FaGitlab">>
    /\ GlyphTypes(out[t]) = <<"FaAws">>

\* C9: matching is exact string equality: a gitProvider that differs from a
\* known tag by case or whitespace, or is empty or undefined, returns the
\* fragment with four false children, which renders nothing.
C9_NearMissIsUnrecognized ==
  \A s \in Returned :
    ProviderOf(s) \in NearMissProviders =>
      /\ out[s] = Fragment(<<JsFalse, JsFalse, JsFalse, JsFalse>>)
      /\ Glyphs(out[s]) = <<>>

C9_Witness ==
  \E s, t \in Returned :
    /\ ProviderOf(s) = "GitHub"
    /\ ProviderOf(t) = " github"
    /\ out[s].type = "Fragment" /\ Glyphs(out[s]) = <<>>
    /\ out[t].type = "Fragment" /\ Glyphs(out[t]) = <<>>

====
